---- MODULE Spec2Model ----
(***************************************************************************)
(* Model of src/src/04-date-tasks.js: five date utilities.  Each function  *)
(* is an operator computed the way the JavaScript computes it; one action  *)
(* per exported function calls it on an input drawn from a bounded set and *)
(* records the outcome.  Strings are sequences of one-character strings,   *)
(* so formatting, splitting and number parsing are modelled by what they   *)
(* do.  The host (timezone offset and locale of toLocaleString) is chosen  *)
(* once, at start-up, and stays fixed for the life of the process.         *)
(***************************************************************************)
EXTENDS Integers, Sequences, FiniteSets, TLC

VARIABLES pc, fn, args, host, ret
vars == <<pc, fn, args, host, ret>>

----------------------------------------------------------------------------
(* Bounds of the model *)

MinYear == 1896
MaxYear == 2016

\* years outside the range above, among them negative ones (JS % keeps the
\* sign of the dividend)
ExtraYears == {-400, -100, -4, -1, 0, 2400}
Years == (MinYear..MaxYear) \cup ExtraYears

\* field values of the dates handed to timeSpanToString
HourVals == {0, 10, 15}
MinuteVals == {0, 20}
SecondVals == {0, 10}
MsVals == {0, 7, 60, 453}

\* hosts: timezone offset from UTC in minutes, locale of toLocaleString
TzOffsets == {-300, 0, 180, 330}
Locales == {"en-US", "ru-RU", "ko-KR"}
Hosts == [tz : TzOffsets, locale : Locales]

\* UTC time of day of the instants handed to angleBetweenClockHands
UtcHours == 0..23
UtcMinutes == 0..59

----------------------------------------------------------------------------
(* JavaScript values *)

\* a JS number that is an integer, or NaN
Num(n) == [nan |-> FALSE, v |-> n]
NaN == [nan |-> TRUE, v |-> 0]

\* an angle in radians, as the rational multiple num/den of pi, or NaN
Rad(n, d) == [t |-> "number", nan |-> FALSE, num |-> n, den |-> d]
RadNaN == [t |-> "number", nan |-> TRUE, num |-> 0, den |-> 1]
Undefined == [t |-> "undefined", nan |-> FALSE, num |-> 0, den |-> 1]

\* a time value (milliseconds since the epoch), kept as whole seconds and
\* the remaining milliseconds, or NaN
TimeValue(s, m) == [t |-> "number", nan |-> FALSE, sec |-> s, ms |-> m]
TimeNaN == [t |-> "number", nan |-> TRUE, sec |-> 0, ms |-> 0]

\* how a call ends
Return(x) == [kind |-> "return", value |-> x]
Throw(e) == [kind |-> "throw", value |-> e]

\* JS remainder: the result has the sign of the dividend
JsRem(a, b) == IF a >= 0 THEN a % b ELSE -((-a) % b)

Abs(x) == IF x < 0 THEN -x ELSE x

DigitChars == <<"0", "1", "2", "3", "4", "5", "6", "7", "8", "9">>
Digit(d) == DigitChars[d + 1]

RECURSIVE NatToString(_)
NatToString(n) ==
  IF n < 10 THEN <<Digit(n)>> ELSE NatToString(n \div 10) \o <<Digit(n % 10)>>

\* String(n) for an integer n, as a template literal renders it
NumberToString(n) ==
  IF n < 0 THEN <<"-">> \o NatToString(-n) ELSE NatToString(n)

----------------------------------------------------------------------------
(* parseDataFromRfc2822, parseDataFromIso8601 *)

\* Sample inputs of Date.parse.  zoned: the string names its UTC offset;
\* sec: epoch seconds of the fields read as UTC (zoned: of the instant).
ParseTable ==
  { [value |-> "December 17, 1995 03:24:00", ok |-> TRUE, zoned |-> FALSE, sec |-> 819170640],
    [value |-> "Tue, 26 Jan 2016 13:48:02 GMT", ok |-> TRUE, zoned |-> TRUE, sec |-> 1453816082],
    [value |-> "Sun, 17 May 1998 03:00:00 GMT+01", ok |-> TRUE, zoned |-> TRUE, sec |-> 895370400],
    [value |-> "2016-01-19T16:07:37+00:00", ok |-> TRUE, zoned |-> TRUE, sec |-> 1453219657],
    [value |-> "2016-01-19T08:07:37Z", ok |-> TRUE, zoned |-> TRUE, sec |-> 1453190857],
    [value |-> "", ok |-> FALSE, zoned |-> FALSE, sec |-> 0],
    [value |-> "not a date", ok |-> FALSE, zoned |-> FALSE, sec |-> 0],
    [value |-> "2016-13-45T99:99:99Z", ok |-> FALSE, zoned |-> FALSE, sec |-> 0],
    [value |-> "Tue, 26 Foo 2016 13:48:02 GMT", ok |-> FALSE, zoned |-> FALSE, sec |-> 0] }

ParseInputs == {e.value : e \in ParseTable}
Unparseable == {e.value : e \in {x \in ParseTable : ~x.ok}}

\* Date.parse of the host: the time value of a recognised string (a string
\* without an offset is local time), NaN for any other string; no throw.
DateParse(value, h) ==
  LET e == CHOOSE x \in ParseTable : x.value = value
  IN  IF ~e.ok THEN Return(TimeNaN)
      ELSE IF e.zoned THEN Return(TimeValue(e.sec, 0))
      ELSE Return(TimeValue(e.sec - 60 * h.tz, 0))

\* the stub the exercise starts from: throw new Error('Not implemented')
parseDataFromRfc2822_NotImplemented(value, h) == Throw("Not implemented")

parseDataFromRfc2822(value, h) == DateParse(value, h)

parseDataFromIso8601(value, h) == DateParse(value, h)

----------------------------------------------------------------------------
(* isLeapYear *)

\* a Date, by its local calendar and time-of-day fields
MkDate(y, h, m, s, ms) ==
  [year |-> y, hours |-> h, minutes |-> m, seconds |-> s, milliseconds |-> ms]

\* a slip of the rule: the 400 clause left out
isLeapYear_No400(date) ==
  LET year == date.year
  IN  (JsRem(year, 4) = 0) /\ (JsRem(year, 100) # 0)

isLeapYear(date) ==
  LET year == date.year
  IN  ((JsRem(year, 4) = 0) /\ (JsRem(year, 100) # 0)) \/ (JsRem(year, 400) = 0)

----------------------------------------------------------------------------
(* timeSpanToString *)

\* a true duration: the difference of the times of day, carried across units
timeSpanToString_Duration(startDate, endDate) ==
  LET MsOfDay(d) == ((d.hours * 60 + d.minutes) * 60 + d.seconds) * 1000 + d.milliseconds
      span == Abs(MsOfDay(endDate) - MsOfDay(startDate))
      Pad2(n) == IF n < 10 THEN <<"0">> \o NumberToString(n) ELSE NumberToString(n)
      Pad3(n) == IF n < 10 THEN <<"0", "0">> \o NumberToString(n)
                 ELSE IF n < 100 THEN <<"0">> \o NumberToString(n)
                 ELSE NumberToString(n)
  IN  Pad2(span \div 3600000) \o <<":">> \o Pad2((span \div 60000) % 60) \o <<":">>
        \o Pad2((span \div 1000) % 60) \o <<".">> \o Pad3(span % 1000)

\* a slip of the padding: the `else if (milliSecond < 100)` branch left out
timeSpanToString_NoMs100(startDate, endDate) ==
  LET hour == endDate.hours - startDate.hours
      minute == endDate.minutes - startDate.minutes
      second == endDate.seconds - startDate.seconds
      milliSecond == endDate.milliseconds - startDate.milliseconds
      hourS == IF hour < 10 THEN <<"0">> \o NumberToString(hour) ELSE NumberToString(hour)
      minuteS == IF minute < 10 THEN <<"0">> \o NumberToString(minute) ELSE NumberToString(minute)
      secondS == IF second < 10 THEN <<"0">> \o NumberToString(second) ELSE NumberToString(second)
      milliSecondS == IF milliSecond < 10 THEN <<"0", "0">> \o NumberToString(milliSecond)
                      ELSE NumberToString(milliSecond)
  IN  hourS \o <<":">> \o minuteS \o <<":">> \o secondS \o <<".">> \o milliSecondS

timeSpanToString(startDate, endDate) ==
  LET hour == endDate.hours - startDate.hours
      minute == endDate.minutes - startDate.minutes
      second == endDate.seconds - startDate.seconds
      milliSecond == endDate.milliseconds - startDate.milliseconds
      hourS == IF hour < 10 THEN <<"0">> \o NumberToString(hour) ELSE NumberToString(hour)
      minuteS == IF minute < 10 THEN <<"0">> \o NumberToString(minute) ELSE NumberToString(minute)
      secondS == IF second < 10 THEN <<"0">> \o NumberToString(second) ELSE NumberToString(second)
      milliSecondS == IF milliSecond < 10 THEN <<"0", "0">> \o NumberToString(milliSecond)
                      ELSE IF milliSecond < 100 THEN <<"0">> \o NumberToString(milliSecond)
                      ELSE NumberToString(milliSecond)
  IN  hourS \o <<":">> \o minuteS \o <<":">> \o secondS \o <<".">> \o milliSecondS

SpanDates == {MkDate(2000, h, m, s, ms) : h \in HourVals, m \in MinuteVals,
                                          s \in SecondVals, ms \in MsVals}

----------------------------------------------------------------------------
(* angleBetweenClockHands *)

\* an instant, by its UTC fields: Date.UTC(2016, 3, 5, h, m)
MkUtc(h, m) == [year |-> 2016, month |-> 4, day |-> 5, hours |-> h, minutes |-> m, seconds |-> 0]

TwoDigit(n) == <<Digit(n \div 10), Digit(n % 10)>>

\* the local calendar fields of an instant on host h
LocalFields(date, h) ==
  LET total == date.hours * 60 + date.minutes + h.tz
      mins == total % 1440
  IN  [year |-> date.year, month |-> date.month, day |-> date.day + (total \div 1440),
       hours |-> mins \div 60, minutes |-> mins % 60, seconds |-> date.seconds]

\* Date.prototype.toLocaleString() in the host's timezone and locale:
\*   en-US  4/5/2016, 3:00:00 AM
\*   ru-RU  05.04.2016, 03:00:00
\*   ko-KR  2016. 4. 5. AM 3:00:00   (the day period is a Korean word; "AM"
\*          and "PM" stand for it, only its position matters)
toLocaleString(date, h) ==
  LET l == LocalFields(date, h)
      h12 == ((l.hours + 11) % 12) + 1
      period == IF l.hours < 12 THEN <<"A", "M">> ELSE <<"P", "M">>
      clock12 == NumberToString(h12) \o <<":">> \o TwoDigit(l.minutes) \o <<":">> \o TwoDigit(l.seconds)
      clock24 == TwoDigit(l.hours) \o <<":">> \o TwoDigit(l.minutes) \o <<":">> \o TwoDigit(l.seconds)
  IN  CASE h.locale = "en-US" ->
             NumberToString(l.month) \o <<"/">> \o NumberToString(l.day) \o <<"/">>
               \o NumberToString(l.year) \o <<",", " ">> \o clock12 \o <<" ">> \o period
        [] h.locale = "ru-RU" ->
             TwoDigit(l.day) \o <<".">> \o TwoDigit(l.month) \o <<".">>
               \o NumberToString(l.year) \o <<",", " ">> \o clock24
        [] h.locale = "ko-KR" ->
             NumberToString(l.year) \o <<".", " ">> \o NumberToString(l.month) \o <<".", " ">>
               \o NumberToString(l.day) \o <<".", " ">> \o period \o <<" ">> \o clock12

\* String.prototype.split(sep) for a one-character separator
RECURSIVE Split(_, _)
Split(s, sep) ==
  IF \A i \in 1..Len(s) : s[i] # sep THEN <<s>>
  ELSE LET i == CHOOSE k \in 1..Len(s) : s[k] = sep /\ \A j \in 1..(k - 1) : s[j] # sep
       IN  <<SubSeq(s, 1, i - 1)>> \o Split(SubSeq(s, i + 1, Len(s)), sep)

\* arr[i] of a JS array (0-based): undefined past the end
At(arr, i) ==
  IF i + 1 <= Len(arr) THEN [def |-> TRUE, s |-> arr[i + 1]] ELSE [def |-> FALSE, s |-> <<>>]

RECURSIVE DigitsValue(_)
DigitsValue(s) ==
  IF s = <<>> THEN 0
  ELSE 10 * DigitsValue(SubSeq(s, 1, Len(s) - 1)) + (CHOOSE d \in 0..9 : Digit(d) = s[Len(s)])

\* ToNumber of a string of the shapes split() yields here, or of undefined:
\* "" is 0, digits with an optional trailing "." are that integer, else NaN
ToNumber(x) ==
  IF ~x.def THEN NaN
  ELSE IF x.s = <<>> THEN Num(0)
  ELSE LET body == IF x.s[Len(x.s)] = "." THEN SubSeq(x.s, 1, Len(x.s) - 1) ELSE x.s
       IN  IF body # <<>> /\ \A i \in 1..Len(body) : body[i] \in {Digit(d) : d \in 0..9}
           THEN Num(DigitsValue(body)) ELSE NaN

\* a slip of the first test: `result > 0 && result < 180 && result !== 90`
ReturnAngle_RangeTest(result) ==
  IF ~result.nan /\ result.v > 0 /\ result.v < 360 /\ result.v # 180
    THEN Return(Rad(result.v, 360))
  ELSE IF ~result.nan /\ result.v = 0 THEN Return(Rad(0, 1))
  ELSE IF ~result.nan /\ result.v = 180 THEN Return(Rad(1, 2))
  ELSE IF ~result.nan /\ result.v = 360 THEN Return(Rad(1, 1))
  ELSE Return(Undefined)

\* the four returns and the fallback; result is twice the angle in degrees
\* (the angle is a multiple of 0.5), or NaN, for which every !== holds
ReturnAngle(result) ==
  IF result.nan \/ (result.v # 0 /\ result.v # 180 /\ result.v # 360)
    THEN Return(IF result.nan THEN RadNaN ELSE Rad(result.v, 360))
  ELSE IF result.v = 0 THEN Return(Rad(0, 1))
  ELSE IF result.v = 180 THEN Return(Rad(1, 2))
  ELSE IF result.v = 360 THEN Return(Rad(1, 1))
  ELSE Return(Undefined)

angleBetweenClockHands(date, h) ==
  LET newDate == toLocaleString(date, h)
      arr == Split(newDate, " ")
      arr1 == At(arr, 1)
      arr2 == Split(arr1.s, ":")
      first == ToNumber(At(arr2, 0))
      hours == IF first.nan THEN NaN ELSE Num(first.v - 3)
      minutes == ToNumber(At(arr2, 1))
      \* twice Math.abs((60 * hours + minutes) / 2 - 6 * minutes)
      abs2 == IF hours.nan \/ minutes.nan THEN NaN
              ELSE Num(Abs((60 * hours.v + minutes.v) - 12 * minutes.v))
      result == IF ~abs2.nan /\ abs2.v > 360 THEN Num(720 - abs2.v) ELSE abs2
  IN  IF ~arr1.def THEN Throw("TypeError") ELSE ReturnAngle(result)

----------------------------------------------------------------------------
(* The library: a caller on one host calls the exported functions   *)
(* one at a time.                                                   *)

NoResult == [kind |-> "none", value |-> 0]

Init ==
  /\ pc = "idle"
  /\ fn = "none"
  /\ args = <<>>
  /\ host \in Hosts
  /\ ret = NoResult

CallParseDataFromRfc2822 ==
  /\ pc = "idle"
  /\ \E value \in ParseInputs :
       /\ args' = <<value>>
       /\ ret' = parseDataFromRfc2822(value, host)
  /\ fn' = "parseDataFromRfc2822"
  /\ pc' = "done"
  /\ UNCHANGED host

CallParseDataFromIso8601 ==
  /\ pc = "idle"
  /\ \E value \in ParseInputs :
       /\ args' = <<value>>
       /\ ret' = parseDataFromIso8601(value, host)
  /\ fn' = "parseDataFromIso8601"
  /\ pc' = "done"
  /\ UNCHANGED host

CallIsLeapYear ==
  /\ pc = "idle"
  /\ \E y \in Years :
       LET date == MkDate(y, 0, 0, 0, 0)
       IN  /\ args' = <<date>>
           /\ ret' = Return(isLeapYear(date))
  /\ fn' = "isLeapYear"
  /\ pc' = "done"
  /\ UNCHANGED host

CallTimeSpanToString ==
  /\ pc = "idle"
  /\ \E startDate \in SpanDates, endDate \in SpanDates :
       /\ args' = <<startDate, endDate>>
       /\ ret' = Return(timeSpanToString(startDate, endDate))
  /\ fn' = "timeSpanToString"
  /\ pc' = "done"
  /\ UNCHANGED host

CallAngleBetweenClockHands ==
  /\ pc = "idle"
  /\ \E h \in UtcHours, m \in UtcMinutes :
       LET date == MkUtc(h, m)
       IN  /\ args' = <<date>>
           /\ ret' = angleBetweenClockHands(date, host)
  /\ fn' = "angleBetweenClockHands"
  /\ pc' = "done"
  /\ UNCHANGED host

\* the caller drops the result; no function keeps state between calls
Finish ==
  /\ pc = "done"
  /\ pc' = "idle"
  /\ fn' = "none"
  /\ args' = <<>>
  /\ ret' = NoResult
  /\ UNCHANGED host

Next ==
  \/ CallParseDataFromRfc2822
  \/ CallParseDataFromIso8601
  \/ CallIsLeapYear
  \/ CallTimeSpanToString
  \/ CallAngleBetweenClockHands
  \/ Finish

Spec == Init /\ [][Next]_vars

----------------------------------------------------------------------------
(* Properties *)

Done(f) == pc = "done" /\ fn = f

\* C1: isLeapYear(date) is true iff the year of the date is divisible by 4
\* and (not divisible by 100 or divisible by 400); it is false for 1900, 2001
\* and 2015 and true for 2000 and 2012.
IsLeapYearRule ==
  Done("isLeapYear") =>
    LET y == args[1].year
    IN  /\ ret.kind = "return"
        /\ ret.value = ((y % 4 = 0) /\ ((y % 100 # 0) \/ (y % 400 = 0)))
        /\ (y \in {1900, 2001, 2015} => ret.value = FALSE)
        /\ (y \in {2000, 2012} => ret.value = TRUE)

IsLeapYearCentury ==
  /\ Done("isLeapYear")
  /\ args[1].year = 2000
  /\ ret = Return(TRUE)

\* the angle x is n/d of pi
IsPiTimes(x, n, d) == x.t = "number" /\ ~x.nan /\ x.num * d = n * x.den

\* C2: for every UTC hour and minute, angleBetweenClockHands returns a
\* number in [0, pi], never negative and never more than pi.
AngleInRange ==
  Done("angleBetweenClockHands") =>
    /\ ret.kind = "return"
    /\ ret.value.t = "number"
    /\ ~ret.value.nan
    /\ 0 <= ret.value.num
    /\ ret.value.num <= ret.value.den

\* C3: angleBetweenClockHands returns 0 at 00:00 UTC, pi/2 at 03:00 UTC, pi
\* at 18:00 UTC and pi/2 at 21:00 UTC.
AngleDocExamples ==
  (Done("angleBetweenClockHands") /\ args[1].minutes = 0) =>
    /\ ret.kind = "return"
    /\ (args[1].hours = 0 => IsPiTimes(ret.value, 0, 1))
    /\ (args[1].hours = 3 => IsPiTimes(ret.value, 1, 2))
    /\ (args[1].hours = 18 => IsPiTimes(ret.value, 1, 1))
    /\ (args[1].hours = 21 => IsPiTimes(ret.value, 1, 2))

\* C4: the angle depends only on the UTC hour and minute of the instant: on
\* any other host (timezone offset, locale) the same instant yields the
\* same angle.
AngleHostIndependent ==
  Done("angleBetweenClockHands") =>
    \A h2 \in Hosts : angleBetweenClockHands(args[1], h2) = ret

\* the output split into its four fields, at the ':' and the '.'
Fields(s) ==
  LET p == Split(s, ":")
      q == Split(p[Len(p)], ".")
  IN  SubSeq(p, 1, Len(p) - 1) \o q

FieldsNotBefore(startDate, endDate) ==
  /\ endDate.hours >= startDate.hours
  /\ endDate.minutes >= startDate.minutes
  /\ endDate.seconds >= startDate.seconds
  /\ endDate.milliseconds >= startDate.milliseconds

ThreeDigit(n) == <<Digit(n \div 100), Digit((n \div 10) % 10), Digit(n % 10)>>

\* C5: when every time field of endDate is at least that of startDate,
\* timeSpanToString returns the hour, minute and second differences as
\* exactly 2 digits each and the millisecond difference as exactly 3 digits,
\* "HH:mm:ss.sss"; 10:00:00 to 15:20:10.453 gives "05:20:10.453".
TimeSpanPadded ==
  (Done("timeSpanToString") /\ FieldsNotBefore(args[1], args[2])) =>
    LET s == args[1]
        e == args[2]
    IN  /\ ret = Return(TwoDigit(e.hours - s.hours) \o <<":">>
                     \o TwoDigit(e.minutes - s.minutes) \o <<":">>
                     \o TwoDigit(e.seconds - s.seconds) \o <<".">>
                     \o ThreeDigit(e.milliseconds - s.milliseconds))
        /\ (s = MkDate(2000, 10, 0, 0, 0) /\ e = MkDate(2000, 15, 20, 10, 453)
              => ret.value = <<"0", "5", ":", "2", "0", ":", "1", "0", ".", "4", "5", "3">>)

TimeSpanDocExample ==
  /\ Done("timeSpanToString")
  /\ args = <<MkDate(2000, 10, 0, 0, 0), MkDate(2000, 15, 20, 10, 453)>>
  /\ ret = Return(<<"0", "5", ":", "2", "0", ":", "1", "0", ".", "4", "5", "3">>)

\* "HH:mm:ss.sss": 12 characters, ':' third and sixth, '.' ninth, no
\* separator elsewhere
HasSpanShape(s) ==
  /\ Len(s) = 12
  /\ s[3] = ":"
  /\ s[6] = ":"
  /\ s[9] = "."
  /\ \A i \in (1..12) \ {3, 6, 9} : s[i] \notin {":", "."}

ParseNeverThrows ==
  (Done("parseDataFromRfc2822") \/ Done("parseDataFromIso8601")) =>
    /\ ret.kind = "return"
    /\ ret.value.t = "number"
    /\ (args[1] \in Unparseable => ret.value.nan)

ParseMalformed ==
  /\ Done("parseDataFromRfc2822")
  /\ args[1] = "Tue, 26 Foo 2016 13:48:02 GMT"
  /\ ret = Return(TimeNaN)

\* the dates that differ from d at most in the time fields other than f
VaryOthers(d, f) == {x \in SpanDates : x[f] = d[f]}

\* C8: no borrowing or carrying: changing only the other time fields of
\* startDate or of endDate never changes an output field (hours, minutes,
\* seconds, milliseconds).  Every such change of both dates is a change of
\* one followed by a change of the other.
TimeSpanNoCarry ==
  Done("timeSpanToString") =>
    \A i \in 1..4 :
      LET f == <<"hours", "minutes", "seconds", "milliseconds">>[i]
      IN  /\ Len(Fields(ret.value)) = 4
          /\ \A s2 \in VaryOthers(args[1], f) :
               Fields(timeSpanToString(s2, args[2]))[i] = Fields(ret.value)[i]
          /\ \A e2 \in VaryOthers(args[2], f) :
               Fields(timeSpanToString(args[1], e2))[i] = Fields(ret.value)[i]

TimeSpanBorrowCase ==
  /\ Done("timeSpanToString")
  /\ args = <<MkDate(2000, 10, 20, 10, 453), MkDate(2000, 15, 0, 0, 0)>>
  /\ Fields(ret.value)[1] = <<"0", "5">>

\* C9: angleBetweenClockHands never returns undefined, whatever the hour and
\* minute, also when the time string yields no numeric hour or minute.
AngleNeverUndefined ==
  Done("angleBetweenClockHands") => ret # Return(Undefined)

AngleOfNaN ==
  /\ Done("angleBetweenClockHands")
  /\ ret = Return(RadNaN)

\* C10: 12-hour clock: for every hour H in 0..11 and minute M the angle at
\* UTC H:M equals the angle at UTC (H+12):M.
AngleTwelveHourClock ==
  (Done("angleBetweenClockHands") /\ args[1].hours < 12) =>
    LET later == angleBetweenClockHands([args[1] EXCEPT !.hours = @ + 12], host)
    IN  /\ ret.kind = "return"
        /\ later.kind = "return"
        /\ ret.value.nan = later.value.nan
        /\ ret.value.num * later.value.den = later.value.num * ret.value.den

====
